---- MODULE Spec2Model ----
(***************************************************************************)
(* State-machine model of the HIT137 AI model display application:         *)
(* ModelRunner (model_runner.py), the handle_errors / log_action           *)
(* decorators (decorators.py) and the AIModelGUI event handlers            *)
(* (gui_base.py).  One action per user operation; each action models the   *)
(* whole synchronous call chain of its handler.                            *)
(***************************************************************************)
EXTENDS Integers, Sequences, FiniteSets, TLC

VARIABLES
    selected_model,      \* AIModelGUI.selected_model (StringVar)
    file_path,           \* AIModelGUI.file_path; <<>> stands for None
    text_input,          \* content of text_input_box (sequence of characters)
    caption_output,      \* content of caption_output_box (sequence of strings)
    status_label,        \* text of status_label (sequence of strings)
    selected_file_label, \* text of selected_file_label
    model_info,          \* content of the model_info widget
    text_state,          \* state option of text_input_box
    browse_state,        \* state option of file_browse_button
    caption_state,       \* state option of caption_output_box
    tmp_files,           \* temporary-file area: set of file records
    launches,            \* every OS open call dispatched so far (its path argument)
    last                 \* what the most recent operation did, if it was Run Model,
                         \* Clear All or the file dialog

vars == <<selected_model, file_path, text_input, caption_output, status_label,
          selected_file_label, model_info, text_state, browse_state,
          caption_state, tmp_files, launches, last>>

----------------------------------------------------------------------------
(* Bounds *)

MaxN == 2          \* longest waveform axis the capability returns
MaxFiles == 2      \* speech requests that reach the temp-file step

----------------------------------------------------------------------------
(* Values *)

ImageToText == "Image-to-Text"
TextToSpeech == "Text-to-Speech"
Models == {ImageToText, TextToSpeech}

NoPath == <<>>
Paths == { <<"pics", "cat.png">>, <<"pics", "gone.png">> }

Chars == {"a", " "}
Whitespace == {" ", "\n"}
Texts == { <<>>, <<" ">>, <<"a">>, <<" ", "a">> }

Captions == {"a cat", "a dog"}
Rates == {24000}

NoExc == [type |-> "none", msg |-> ""]
Exc(t, m) == [type |-> t, msg |-> m]

----------------------------------------------------------------------------
(* Sequence helpers *)

Last(s) == s[Len(s)]

RECURSIVE Product(_)
Product(shape) ==
    IF shape = <<>> THEN 1 ELSE Head(shape) * Product(Tail(shape))

Ramp(n) == [i \in 1..n |-> i]

\* str.strip(): drop leading and trailing whitespace
RECURSIVE LStrip(_)
LStrip(s) ==
    IF s # <<>> /\ Head(s) \in Whitespace THEN LStrip(Tail(s)) ELSE s

RECURSIVE RStrip(_)
RStrip(s) ==
    IF s # <<>> /\ Last(s) \in Whitespace
    THEN RStrip(SubSeq(s, 1, Len(s) - 1))
    ELSE s

Strip(s) == RStrip(LStrip(s))

----------------------------------------------------------------------------
(* External collaborators: what the mocked capabilities and the host return *)

\* A NumPy array (isarray) or a plain Python list, with its shape and its
\* samples in row-major order.
Array(shape) == [isarray |-> TRUE, shape |-> shape, data |-> Ramp(Product(shape))]
PyList(n) == [isarray |-> FALSE, shape |-> <<n>>, data |-> Ramp(n)]
NoWave == PyList(0)

Waveforms ==
    { Array(<<n>>) : n \in 1..MaxN }
    \cup { Array(<<1, n>>) : n \in 1..MaxN }
    \cup { Array(<<2, n>>) : n \in 1..MaxN }
    \cup { PyList(1) }

\* Result of the text-to-audio capability: it raises, or returns something
\* that is a dict (with the keys present in it) or is not a dict.
DictResult(keys, w, r) ==
    [raises |-> FALSE, isdict |-> TRUE, keys |-> keys, audio |-> w, sampling_rate |-> r]
RaisingResult ==
    [raises |-> TRUE, isdict |-> FALSE, keys |-> {}, audio |-> NoWave, sampling_rate |-> 0]
NotADict ==
    [raises |-> FALSE, isdict |-> FALSE, keys |-> {}, audio |-> NoWave, sampling_rate |-> 0]

SpeechResults ==
    { RaisingResult, NotADict }
    \cup { DictResult({}, NoWave, 0) }
    \cup { DictResult({"audio"}, w, 0) : w \in { Array(<<1, 1>>) } }
    \cup { DictResult({"sampling_rate"}, NoWave, r) : r \in Rates }
    \cup { DictResult({"audio", "sampling_rate"}, w, r) : w \in Waveforms, r \in Rates }

\* Result of the image-to-text capability: it raises, or returns a list of records.
CaptionLists ==
    { <<>> }
    \cup { << [generated_text |-> c] >> : c \in Captions }
    \cup { << [generated_text |-> p[1]], [generated_text |-> p[2]] >> :
             p \in { q \in Captions \X Captions : q[1] # q[2] } }

CaptionResults ==
    { [raises |-> TRUE, value |-> <<>>] }
    \cup { [raises |-> FALSE, value |-> l] : l \in CaptionLists }

\* Exit codes of the shell that runs "start": success, command not found.
ExitCodes == {0, 127}

\* The environment of one captioning request.  An input a request never
\* reaches is fixed at its default.
CaptionEnvs ==
    { [img_ok |-> FALSE, load_ok |-> TRUE, result |-> [raises |-> TRUE, value |-> <<>>]] }
    \cup { [img_ok |-> TRUE, load_ok |-> FALSE, result |-> [raises |-> TRUE, value |-> <<>>]] }
    \cup { [img_ok |-> TRUE, load_ok |-> TRUE, result |-> r] : r \in CaptionResults }

\* The environment of one speech request, likewise.  The host's failures (no
\* temporary file, a failed write, a failed launch) are tried on one
\* well-formed result; every result is tried on a host that does not fail.
SpeechEnv(load_ok, result, tmp_ok, io_ok, exit_code) ==
    [load_ok |-> load_ok, result |-> result, tmp_ok |-> tmp_ok,
     io_ok |-> io_ok, exit_code |-> exit_code]

BarkResult == DictResult({"audio", "sampling_rate"}, Array(<<1, 2>>), 24000)

SpeechEnvs ==
    { SpeechEnv(FALSE, RaisingResult, TRUE, TRUE, 0) }
    \cup { SpeechEnv(TRUE, r, TRUE, TRUE, 0) : r \in SpeechResults }
    \cup { SpeechEnv(TRUE, BarkResult, FALSE, TRUE, 0) }
    \cup { SpeechEnv(TRUE, BarkResult, TRUE, FALSE, 0) }
    \cup { SpeechEnv(TRUE, BarkResult, TRUE, TRUE, c) : c \in ExitCodes }

NoEnv == SpeechEnv(FALSE, RaisingResult, FALSE, FALSE, 0)

----------------------------------------------------------------------------
(* ModelRunner.run_image_captioning *)

\* result[0]['generated_text']
ExtractCaption_last(result) == Last(result).generated_text

ExtractCaption(result) == result[1].generated_text

CaptionOutcome(exc, ret, events) == [exc |-> exc, ret |-> ret, events |-> events]

\* lines 12 and 13 swapped: the model is loaded before the image is opened
run_image_captioning_pipe_first(image_path, env) ==
    IF ~env.load_ok
    THEN CaptionOutcome(Exc("OSError", "cannot load model"), "", <<"pipeline">>)
    ELSE IF ~env.img_ok
    THEN CaptionOutcome(Exc("FileNotFoundError", "No such file or directory"), "",
                        <<"pipeline", "Image.open">>)
    ELSE IF env.result.raises
    THEN CaptionOutcome(Exc("RuntimeError", "inference failed"), "",
                        <<"pipeline", "Image.open", "pipe">>)
    ELSE IF env.result.value = <<>>
    THEN CaptionOutcome(Exc("IndexError", "list index out of range"), "",
                        <<"pipeline", "Image.open", "pipe">>)
    ELSE CaptionOutcome(NoExc, ExtractCaption(env.result.value),
                        <<"pipeline", "Image.open", "pipe">>)

run_image_captioning(image_path, env) ==
    IF ~env.img_ok
    THEN CaptionOutcome(Exc("FileNotFoundError", "No such file or directory"), "",
                        <<"Image.open">>)
    ELSE IF ~env.load_ok
    THEN CaptionOutcome(Exc("OSError", "cannot load model"), "",
                        <<"Image.open", "pipeline">>)
    ELSE IF env.result.raises
    THEN CaptionOutcome(Exc("RuntimeError", "inference failed"), "",
                        <<"Image.open", "pipeline", "pipe">>)
    ELSE IF env.result.value = <<>>
    THEN CaptionOutcome(Exc("IndexError", "list index out of range"), "",
                        <<"Image.open", "pipeline", "pipe">>)
    ELSE CaptionOutcome(NoExc, ExtractCaption(env.result.value),
                        <<"Image.open", "pipeline", "pipe">>)

----------------------------------------------------------------------------
(* ModelRunner.run_text_to_speech *)

\* isinstance(result, dict) and "audio" in result and "sampling_rate" in result
IsValidResult_audio_only(result) == result.isdict /\ "audio" \in result.keys

IsValidResult(result) ==
    result.isdict /\ "audio" \in result.keys /\ "sampling_rate" \in result.keys

\* ndarray.squeeze(): every axis of length 1 is removed, the samples keep
\* their order
squeeze(a) == [a EXCEPT !.shape = SelectSeq(a.shape, LAMBDA d : d # 1)]

\* the shape step: only a two-dimensional ndarray is squeezed
normalize_reversed(audio_array) ==
    IF audio_array.isarray /\ Len(audio_array.shape) = 2
    THEN [squeeze(audio_array) EXCEPT
            !.data = [i \in 1..Len(audio_array.data) |->
                        audio_array.data[Len(audio_array.data) + 1 - i]]]
    ELSE audio_array

normalize(audio_array) ==
    IF audio_array.isarray /\ Len(audio_array.shape) = 2
    THEN squeeze(audio_array)
    ELSE audio_array

\* Files of the temporary-file area.  A file that was created but whose
\* write did not complete has written = FALSE.
EmptyFile(name) ==
    [name |-> name, written |-> FALSE, rate |-> 0, frames |-> 0, channels |-> 0,
     data |-> <<>>]
WavFile(name, rate, frames, channels, data) ==
    [name |-> name, written |-> TRUE, rate |-> rate, frames |-> frames,
     channels |-> channels, data |-> data]

Names(files) == { f.name : f \in files }

\* tempfile.NamedTemporaryFile picks a name no existing file has
FreshName(files) == CHOOSE n \in 1..(Cardinality(files) + 1) : n \notin Names(files)

\* leaving the with block closes the file; delete=False keeps it on disk
CloseTmp_delete(files, name) == { f \in files : f.name # name }

CloseTmp(files, name) == files

\* scipy.io.wavfile.write(tmp_path, rate, data): a one-dimensional array is
\* one channel, otherwise axis 0 is the frames and axis 1 the channels
WavWrite(name, rate, data, io_ok) ==
    IF ~data.isarray
    THEN [exc |-> Exc("AttributeError", "'list' object has no attribute 'dtype'"),
          file |-> EmptyFile(name)]
    ELSE IF ~io_ok
    THEN [exc |-> Exc("OSError", "No space left on device"), file |-> EmptyFile(name)]
    ELSE IF Len(data.shape) = 0
    THEN [exc |-> Exc("IndexError", "tuple index out of range"), file |-> EmptyFile(name)]
    ELSE IF Len(data.shape) = 1
    THEN [exc |-> NoExc, file |-> WavFile(name, rate, data.shape[1], 1, data.data)]
    ELSE [exc |-> NoExc,
          file |-> WavFile(name, rate, data.shape[1], data.shape[2], data.data)]

\* subprocess.run(["start", "", tmp_path], shell=True): no check=True, so the
\* exit code of the shell is not looked at
subprocess_run(exit_code) == NoExc

SpeechOutcome(exc, events, files, normalized, encoded, launched) ==
    [exc |-> exc, events |-> events, files |-> files, normalized |-> normalized,
     encoded |-> encoded, launched |-> launched]

run_text_to_speech(text, env, files) ==
    IF ~env.load_ok
    THEN SpeechOutcome(Exc("OSError", "cannot load model"), <<"pipeline">>,
                       files, <<>>, <<>>, <<>>)
    ELSE IF env.result.raises
    THEN SpeechOutcome(Exc("RuntimeError", "inference failed"), <<"pipeline", "pipe">>,
                       files, <<>>, <<>>, <<>>)
    ELSE IF ~IsValidResult(env.result)
    THEN SpeechOutcome(Exc("TypeError", "Unexpected output format from Bark"),
                       <<"pipeline", "pipe">>, files, <<>>, <<>>, <<>>)
    ELSE
    LET audio_array == normalize(env.result.audio)
        sample_rate == env.result.sampling_rate
    IN  IF ~env.tmp_ok
        THEN SpeechOutcome(Exc("OSError", "cannot create temporary file"),
                           <<"pipeline", "pipe", "NamedTemporaryFile">>,
                           files, <<audio_array>>, <<>>, <<>>)
        ELSE
        LET tmp_path == FreshName(files)
            w == WavWrite(tmp_path, sample_rate, audio_array, env.io_ok)
            closed == CloseTmp(files \cup {w.file}, tmp_path)
        IN  IF w.exc # NoExc
            THEN SpeechOutcome(w.exc,
                               <<"pipeline", "pipe", "NamedTemporaryFile", "wavfile.write">>,
                               closed, <<audio_array>>, <<>>, <<>>)
            ELSE SpeechOutcome(subprocess_run(env.exit_code),
                               <<"pipeline", "pipe", "NamedTemporaryFile", "wavfile.write",
                                 "subprocess.run">>,
                               closed, <<audio_array>>, <<w.file>>, <<tmp_path>>)

----------------------------------------------------------------------------
(* oop_explainer.py *)

get_model_info(name, category) == <<"Model Name: ", name, "Category: ", category>>
get_blip_info == get_model_info("Salesforce/blip-image-captioning-base", "Vision-Language")
get_bark_info == get_model_info("suno/bark", "Audio Generation")

----------------------------------------------------------------------------
(* decorators.py *)

NoPopup == [kind |-> "none", title |-> "", msg |-> ""]
showerror(title, msg) == [kind |-> "showerror", title |-> title, msg |-> msg]
showinfo(title, msg) == [kind |-> "showinfo", title |-> title, msg |-> msg]

\* the except clause missing: the exception leaves the wrapper
handle_errors_uncaught(r) == r

\* r is what the wrapped function did; r.propagated says an exception left it
handle_errors(r) ==
    IF r.propagated
    THEN [r EXCEPT !.popup = showerror("Error", r.exc.msg), !.propagated = FALSE]
    ELSE r

\* prints the function's name and calls it
log_action(r) == r

----------------------------------------------------------------------------
(* AIModelGUI *)

\* update_ui_states: the widget states and the model information for a model
update_ui_states(model) ==
    IF model = ImageToText
    THEN [text_state |-> "disabled", browse_state |-> "normal",
          caption_state |-> "normal", model_info |-> get_blip_info]
    ELSE [text_state |-> "normal", browse_state |-> "disabled",
          caption_state |-> "disabled", model_info |-> get_bark_info]

\* file_path.split("/")[-1]
FileName(path) == Last(path)

\* text_input_box.get("1.0", tk.END).strip(): the widget appends a newline
GetText_nostrip(content) == Append(content, "\n")

GetText(content) == Strip(Append(content, "\n"))

NoRun ==
    [op |-> "none", ran |-> FALSE, model |-> ImageToText, invoked |-> <<>>, arg_path |-> NoPath,
     arg_text |-> <<>>, cenv |-> CHOOSE e \in CaptionEnvs : ~e.img_ok, senv |-> NoEnv,
     exc |-> NoExc, propagated |-> FALSE, events |-> <<>>, popup |-> NoPopup,
     ret |-> "", normalized |-> <<>>, encoded |-> <<>>, launched |-> <<>>,
     pre |-> [file_path |-> NoPath, text_input |-> <<>>, caption_output |-> <<>>,
              tmp_files |-> {}],
     status |-> <<>>, caption_output |-> <<>>, caption_state |-> "normal",
     tmp_files |-> {}]

\* The body of run_current_model (lines 183-209): what it leaves behind in the
\* widgets and on disk, and whether an exception leaves it.
run_current_model_body(model, path, content, caption, cap_state, files, cenv, senv) ==
    LET start == [NoRun EXCEPT
                    !.op = "run_current_model", !.ran = TRUE, !.model = model,
                    !.pre = [file_path |-> path, text_input |-> content,
                             caption_output |-> caption, tmp_files |-> files],
                    !.status = <<"Running ", model, " model...">>,
                    !.caption_output = caption, !.caption_state = cap_state,
                    !.tmp_files = files]
    IN  IF model = ImageToText
        THEN IF path # NoPath
             THEN LET c == run_image_captioning(path, cenv)
                      called == [start EXCEPT
                                   !.invoked = <<"run_image_captioning">>,
                                   !.arg_path = path, !.cenv = cenv,
                                   !.events = c.events]
                  IN  IF c.exc = NoExc
                      THEN [called EXCEPT
                              !.ret = c.ret, !.caption_state = "normal",
                              !.caption_output = <<"Caption: ", c.ret, "\n">>,
                              !.status = <<model, " completed!">>]
                      ELSE [called EXCEPT
                              !.status = <<"Error: ", c.exc.msg>>,
                              !.exc = c.exc, !.propagated = TRUE]
             ELSE [start EXCEPT
                     !.popup = showinfo("More information needed",
                                        "Please select an image file.")]
        ELSE LET text == GetText(content)
             IN  IF text # <<>>
                 THEN LET t == run_text_to_speech(text, senv, files)
                          called == [start EXCEPT
                                       !.invoked = <<"run_text_to_speech">>,
                                       !.arg_text = text, !.senv = senv,
                                       !.events = t.events, !.tmp_files = t.files,
                                       !.normalized = t.normalized,
                                       !.encoded = t.encoded, !.launched = t.launched]
                      IN  IF t.exc = NoExc
                          THEN [called EXCEPT !.status = <<model, " completed!">>]
                          ELSE [called EXCEPT
                                  !.status = <<"Error: ", t.exc.msg>>,
                                  !.exc = t.exc, !.propagated = TRUE]
                 ELSE [start EXCEPT
                         !.popup = showinfo("More information needed",
                                            "Please enter text to speak.")]

\* @log_action @handle_errors def run_current_model
run_current_model(model, path, content, caption, cap_state, files, cenv, senv) ==
    log_action(handle_errors(
        run_current_model_body(model, path, content, caption, cap_state, files,
                               cenv, senv)))

TypeOK ==
    /\ selected_model \in Models
    /\ file_path \in Paths \cup {NoPath}
    /\ text_input \in Texts
    /\ text_state \in {"normal", "disabled"}
    /\ browse_state \in {"normal", "disabled"}
    /\ caption_state \in {"normal", "disabled"}
    /\ Cardinality(tmp_files) <= MaxFiles
    /\ last.ran \in BOOLEAN

\* __init__ and create_widgets (lines 16-37)
Init ==
    /\ selected_model = ImageToText
    /\ file_path = NoPath
    /\ text_input = <<>>
    /\ caption_output = <<>>
    /\ status_label = <<"Ready">>
    /\ selected_file_label = <<"No file selected">>
    /\ model_info = update_ui_states(ImageToText).model_info
    /\ text_state = update_ui_states(ImageToText).text_state
    /\ browse_state = update_ui_states(ImageToText).browse_state
    /\ caption_state = update_ui_states(ImageToText).caption_state
    /\ tmp_files = {}
    /\ launches = <<>>
    /\ last = NoRun

\* the user picks a model in the dropdown; the trace runs update_ui_states
SelectModel(m) ==
    /\ selected_model' = m
    /\ model_info' = update_ui_states(m).model_info
    /\ text_state' = update_ui_states(m).text_state
    /\ browse_state' = update_ui_states(m).browse_state
    /\ caption_state' = update_ui_states(m).caption_state
    /\ last' = NoRun
    /\ UNCHANGED <<file_path, text_input, caption_output, status_label,
                   selected_file_label, tmp_files, launches>>

\* the user edits the text box, which takes input only while it is enabled
TypeText(t) ==
    /\ text_state = "normal"
    /\ text_input' = t
    /\ last' = NoRun
    /\ UNCHANGED <<selected_model, file_path, caption_output, status_label,
                   selected_file_label, model_info, text_state, browse_state,
                   caption_state, tmp_files, launches>>

\* the record of an operation other than Run Model: the model selected and
\* the request state when it began
Began(op, chosen) ==
    [NoRun EXCEPT
       !.op = op, !.model = selected_model, !.arg_path = chosen,
       !.pre = [file_path |-> file_path, text_input |-> text_input,
                caption_output |-> caption_output, tmp_files |-> tmp_files]]

\* browse_file: chosen is the dialog's answer, <<>> when it is cancelled
browse_file(chosen) ==
    /\ browse_state = "normal"
    /\ IF chosen # NoPath
       THEN /\ file_path' = chosen
            /\ selected_file_label' = <<"Selected: ", FileName(chosen)>>
            /\ status_label' = <<"Selected file: ", FileName(chosen)>>
       ELSE UNCHANGED <<file_path, selected_file_label, status_label>>
    /\ last' = Began("browse_file", chosen)
    /\ UNCHANGED <<selected_model, text_input, caption_output, model_info,
                   text_state, browse_state, caption_state, tmp_files, launches>>

clear_selected_file ==
    /\ file_path' = NoPath
    /\ selected_file_label' = <<"No file selected">>
    /\ status_label' = <<"File selection cleared">>
    /\ last' = NoRun
    /\ UNCHANGED <<selected_model, text_input, caption_output, model_info,
                   text_state, browse_state, caption_state, tmp_files, launches>>

\* line 224 missing: both boxes stay in the "normal" state lines 213 and 217
\* put them in
clear_output_no_refresh ==
    /\ text_input' = <<>>
    /\ caption_output' = <<>>
    /\ file_path' = NoPath
    /\ selected_file_label' = <<"No file selected">>
    /\ text_state' = "normal"
    /\ caption_state' = "normal"
    /\ status_label' = <<"All outputs cleared">>
    /\ last' = Began("clear_output", NoPath)
    /\ UNCHANGED <<selected_model, model_info, browse_state, tmp_files, launches>>

\* line 221 missing: the file selection survives Clear All
clear_output_keeps_file ==
    /\ text_input' = <<>>
    /\ caption_output' = <<>>
    /\ model_info' = update_ui_states(selected_model).model_info
    /\ text_state' = update_ui_states(selected_model).text_state
    /\ browse_state' = update_ui_states(selected_model).browse_state
    /\ caption_state' = update_ui_states(selected_model).caption_state
    /\ status_label' = <<"All outputs cleared">>
    /\ last' = Began("clear_output", NoPath)
    /\ UNCHANGED <<selected_model, file_path, selected_file_label, tmp_files, launches>>

clear_output ==
    /\ text_input' = <<>>
    /\ caption_output' = <<>>
    /\ file_path' = NoPath
    /\ selected_file_label' = <<"No file selected">>
    /\ model_info' = update_ui_states(selected_model).model_info
    /\ text_state' = update_ui_states(selected_model).text_state
    /\ browse_state' = update_ui_states(selected_model).browse_state
    /\ caption_state' = update_ui_states(selected_model).caption_state
    /\ status_label' = <<"All outputs cleared">>
    /\ last' = Began("clear_output", NoPath)
    /\ UNCHANGED <<selected_model, tmp_files, launches>>

\* the Run Model button
RunCurrentModel(cenv, senv) ==
    \E r \in { run_current_model(selected_model, file_path, text_input, caption_output,
                                  caption_state, tmp_files, cenv, senv) } :
        /\ Cardinality(r.tmp_files) <= MaxFiles
        /\ last' = r
        /\ status_label' = r.status
        /\ caption_output' = r.caption_output
        /\ caption_state' = r.caption_state
        /\ tmp_files' = r.tmp_files
        /\ launches' = launches \o r.launched
        /\ UNCHANGED <<selected_model, file_path, text_input, selected_file_label,
                       model_info, text_state, browse_state>>

Next ==
    \/ \E m \in Models : SelectModel(m)
    \/ \E t \in Texts : TypeText(t)
    \/ \E p \in Paths \cup {NoPath} : browse_file(p)
    \/ clear_selected_file
    \/ clear_output
    \/ \E cenv \in CaptionEnvs :
         selected_model = ImageToText /\ RunCurrentModel(cenv, NoEnv)
    \/ \E senv \in SpeechEnvs :
         selected_model = TextToSpeech /\ RunCurrentModel(NoRun.cenv, senv)

Spec == Init /\ [][Next]_vars

----------------------------------------------------------------------------
(* Properties.  They read `last`, the record of the request the Run Model   *)
(* button just served, together with the state it left behind.              *)

SpeechCalled == last.ran /\ last.invoked = <<"run_text_to_speech">>
CaptionCalled == last.ran /\ last.invoked = <<"run_image_captioning">>

\* the text-to-audio capability returned (it was loaded and did not raise)
PipeReturned == SpeechCalled /\ last.senv.load_ok /\ ~last.senv.result.raises

\* what the returned result is, said without the code's own test
HasBothEntries ==
    /\ last.senv.result.isdict
    /\ {"audio", "sampling_rate"} \subseteq last.senv.result.keys

FormatErrors == {"TypeError", "ValueError"}

NoPlaybackStage ==
    /\ \A i \in 1..Len(last.events) :
         last.events[i] \notin {"NamedTemporaryFile", "wavfile.write", "subprocess.run"}
    /\ tmp_files = last.pre.tmp_files
    /\ last.launched = <<>>

\* C1: a text-to-audio result that is not a record with both an audio and a
\* sampling-rate entry makes run_text_to_speech fail with a format error
\* before the playback stage: no temporary file is created and no OS open
\* call is dispatched.
C1_InvalidResultIsFormatError ==
    (PipeReturned /\ ~HasBothEntries)
        => /\ last.exc.type \in FormatErrors
           /\ NoPlaybackStage

C1_Witness ==
    /\ PipeReturned
    /\ last.senv.result.isdict
    /\ last.senv.result.keys = {"audio"}
    /\ last.exc.type = "TypeError"
    /\ last.pre.tmp_files # {}

\* the capability returned a validated result whose waveform is an array of
\* the given shape
ValidatedShape(shape) ==
    /\ PipeReturned /\ HasBothEntries
    /\ last.senv.result.audio.isarray
    /\ last.senv.result.audio.shape = shape
    /\ last.senv.tmp_ok /\ last.senv.io_ok

\* C2: for a validated waveform of shape (2, N), N > 1, the playback stage
\* fails with a format error, writes no temporary file and dispatches no OS
\* open call.
C2_TwoRowWaveformRejected ==
    \A n \in 2..MaxN :
        ValidatedShape(<<2, n>>)
            => /\ last.exc.type \in FormatErrors
               /\ tmp_files = last.pre.tmp_files
               /\ last.launched = <<>>

\* C3: the shape step maps every waveform of shape (1, N) to shape (N,) with
\* the same samples in the same order, leaves a waveform of shape (N,)
\* unchanged, and the waveform encoded to the file is the normalized one.
C3_NormalizeSqueezesLeadingAxis ==
    \A n \in 1..MaxN :
        /\ ValidatedShape(<<1, n>>)
             => /\ last.normalized = << Array(<<n>>) >>
                /\ Len(last.encoded) = 1
                /\ last.encoded[1].data = last.senv.result.audio.data
                /\ last.encoded[1].frames = n
                /\ last.encoded[1].channels = 1
        /\ ValidatedShape(<<n>>)
             => /\ last.normalized = << last.senv.result.audio >>
                /\ Len(last.encoded) = 1
                /\ last.encoded[1].data = last.senv.result.audio.data
                /\ last.encoded[1].frames = n
                /\ last.encoded[1].channels = 1

SpeechSucceeded == SpeechCalled /\ last.exc = NoExc

\* C4: a speech request that succeeds calls the capability, then creates
\* exactly one new, uniquely named temporary file holding the waveform, then
\* dispatches exactly one OS open call on that file's path; the file exists
\* when the call returns, and no file ever dispatched is deleted later.
C4_SuccessfulSpeechSequence ==
    /\ SpeechSucceeded =>
         /\ last.events = <<"pipeline", "pipe", "NamedTemporaryFile",
                            "wavfile.write", "subprocess.run">>
         /\ last.pre.tmp_files \subseteq tmp_files
         /\ \E f \in tmp_files \ last.pre.tmp_files :
              /\ tmp_files \ last.pre.tmp_files = {f}
              /\ f.name \notin Names(last.pre.tmp_files)
              /\ f.written
              /\ f.data = last.normalized[1].data
              /\ f.rate = last.senv.result.sampling_rate
              /\ last.launched = <<f.name>>
    /\ \A i \in 1..Len(launches) :
         \E f \in tmp_files : f.name = launches[i] /\ f.written
    /\ Cardinality(Names(tmp_files)) = Cardinality(tmp_files)

C4_Witness ==
    /\ SpeechSucceeded
    /\ Len(launches) = 2
    /\ \E f \in last.pre.tmp_files : f.written

\* C5: when the OS launcher fails (non-zero exit, or no such mechanism on the
\* host), run_text_to_speech raises, and run_current_model reports an error
\* instead of "Text-to-Speech completed!".
C5_LaunchFailureSurfaced ==
    (SpeechCalled /\ last.launched # <<>> /\ last.senv.exit_code # 0)
        => /\ last.exc # NoExc
           /\ status_label # <<TextToSpeech, " completed!">>
           /\ status_label[1] = "Error: "

\* the image was loadable and the image-to-text capability returned a
\* non-empty result list
CaptionReturned ==
    /\ CaptionCalled
    /\ last.cenv.img_ok /\ last.cenv.load_ok
    /\ ~last.cenv.result.raises
    /\ last.cenv.result.value # <<>>

\* C6: for a loadable image, run_image_captioning returns the generated-text
\* field of the first record of the capability's result list, unmodified,
\* whatever the application did before: the returned string is fixed by the
\* capability's result alone.
C6_CaptionIsFirstRecordText ==
    CaptionReturned
        => /\ last.exc = NoExc
           /\ last.ret = Head(last.cenv.result.value).generated_text
           /\ last.arg_path = file_path

C6_Witness ==
    /\ CaptionReturned
    /\ Len(last.cenv.result.value) = 2
    /\ last.ret = "a dog"
    /\ last.pre.caption_output = <<"Caption: ", "a cat", "\n">>
    /\ tmp_files # {}

ResourceErrors == {"FileNotFoundError", "PermissionError", "UnidentifiedImageError"}

\* C7: for a path that is not a loadable image, run_image_captioning fails
\* with a resource error before the image-to-text capability is loaded or
\* invoked.
C7_UnloadableImageFailsFirst ==
    (CaptionCalled /\ ~last.cenv.img_ok)
        => /\ last.exc.type \in ResourceErrors
           /\ \A i \in 1..Len(last.events) : last.events[i] \notin {"pipeline", "pipe"}

C7_Witness ==
    /\ CaptionCalled /\ ~last.cenv.img_ok
    /\ last.arg_path = <<"pics", "gone.png">>
    /\ last.events = <<"Image.open">>

\* the environment of the last request made every step of it succeed
EnvAllOk ==
    \/ CaptionReturned
    \/ /\ PipeReturned /\ HasBothEntries
       /\ last.senv.result.audio.isarray
       /\ last.senv.result.audio.shape \in
            { <<n>> : n \in 1..MaxN } \cup { <<1, n>> : n \in 2..MaxN }
       /\ last.senv.tmp_ok /\ last.senv.io_ok

\* C8: every failure of captioning or speech synthesis is caught in
\* run_current_model and shown as an error (popup and "Error: ..." status),
\* never raised out of the handler; and a request whose input and environment
\* are good succeeds the same way whatever failed before it.
C8_FailuresCaughtAndIsolated ==
    /\ (last.ran /\ last.exc # NoExc)
         => /\ ~last.propagated
            /\ last.popup = showerror("Error", last.exc.msg)
            /\ status_label = <<"Error: ", last.exc.msg>>
    /\ (last.ran /\ EnvAllOk)
         => /\ last.exc = NoExc
            /\ ~last.propagated
            /\ last.popup = NoPopup
            /\ status_label = <<selected_model, " completed!">>
            /\ CaptionCalled =>
                 caption_output =
                     <<"Caption: ", Head(last.cenv.result.value).generated_text, "\n">>
            /\ SpeechCalled =>
                 /\ Len(last.launched) = 1
                 /\ Cardinality(tmp_files) = Cardinality(last.pre.tmp_files) + 1

\* a speech request succeeds although an earlier one failed while encoding
C8_Witness ==
    /\ last.ran /\ EnvAllOk /\ SpeechCalled
    /\ status_label = <<TextToSpeech, " completed!">>
    /\ \E f \in last.pre.tmp_files : ~f.written

\* C9: a request that fails at any stage retains no partial state: the
\* selected file path, the input text, the caption output and the set of
\* temporary audio files are what they were before the request.
C9_FailureLeavesNoPartialState ==
    (last.ran /\ last.exc # NoExc)
        => /\ file_path = last.pre.file_path
           /\ text_input = last.pre.text_input
           /\ caption_output = last.pre.caption_output
           /\ tmp_files = last.pre.tmp_files

\* the text box holds something other than whitespace
HasVisibleText == \E i \in 1..Len(text_input) : text_input[i] \notin Whitespace

CountOf(events, e) == Cardinality({ i \in 1..Len(events) : events[i] = e })

\* C10: one Run Model action makes at most one inference call and invokes
\* the captioning method exactly when the model is Image-to-Text and a file
\* is selected, the speech method exactly when the model is Text-to-Speech
\* and the text is non-empty after trimming; otherwise no model method is
\* invoked and the user is only prompted.
C10_OneCallOnValidatedInput ==
    last.ran =>
        /\ Len(last.invoked) <= 1
        /\ CountOf(last.events, "pipe") <= 1
        /\ CountOf(last.events, "pipeline") <= 1
        /\ CaptionCalled <=> (selected_model = ImageToText /\ file_path # NoPath)
        /\ SpeechCalled <=> (selected_model = TextToSpeech /\ HasVisibleText)
        /\ CaptionCalled => last.arg_path = file_path
        /\ last.invoked = <<>> =>
             /\ last.events = <<>>
             /\ last.popup.kind = "showinfo"
             /\ last.exc = NoExc
             /\ tmp_files = last.pre.tmp_files
             /\ caption_output = last.pre.caption_output
             /\ last.launched = <<>>

C10_Witness ==
    /\ last.ran
    /\ selected_model = TextToSpeech
    /\ text_input = <<" ">>
    /\ file_path # NoPath
    /\ last.invoked = <<>>
    /\ last.popup = showinfo("More information needed", "Please enter text to speak.")

\* C11: whenever run_current_model returns, the status bar no longer shows
\* the in-progress message "Running <model> model...": it shows a completion
\* message, an error message or a ready/prompt state.
C11_StatusLeavesRunning ==
    last.ran => status_label # <<"Running ", selected_model, " model...">>

ControlsMatch(model) ==
    IF model = TextToSpeech
    THEN text_state = "normal" /\ browse_state = "disabled" /\ caption_state = "disabled"
    ELSE text_state = "disabled" /\ browse_state = "normal" /\ caption_state = "normal"

\* C12: after any sequence of user operations, once the operation has
\* returned, the text box is enabled and the browse button and caption box
\* are disabled exactly when the selected model is Text-to-Speech, and the
\* reverse exactly when it is Image-to-Text.
C12_ControlsMatchSelectedModel ==
    /\ selected_model \in Models
    /\ ControlsMatch(selected_model)

C12_Witness ==
    /\ last.op = "clear_output"
    /\ selected_model = TextToSpeech
    /\ last.pre.caption_output # <<>>
    /\ last.pre.text_input # <<>>
    /\ tmp_files # {}
    /\ ControlsMatch(TextToSpeech)

\* what Clear All and a cancelled file dialog leave behind
ClearedAndCancelled ==
    /\ last.op = "clear_output" =>
         /\ file_path = NoPath
         /\ text_input = <<>>
         /\ caption_output = <<>>
         /\ selected_model = last.model
    /\ (last.op = "browse_file" /\ last.arg_path = NoPath) =>
         file_path = last.pre.file_path

\* a Run Model step taken in the state Clear All left
RunRightAfterClear ==
    (last.op = "clear_output" /\ last'.op = "run_current_model")
        => /\ last'.invoked = <<>>
           /\ last'.events = <<>>
           /\ last'.popup.kind = "showinfo"

\* C13: in either mode Clear All leaves the file path None, the input text
\* empty and the caption output empty, with the selected model unchanged, so
\* a Run Model issued right after it invokes no model method; a cancelled
\* browse_file leaves the selected file path unchanged.
C13_ClearAllResetsRequestState ==
    /\ []ClearedAndCancelled
    /\ [][RunRightAfterClear]_vars

C13_Witness ==
    /\ last.op = "clear_output"
    /\ selected_model = TextToSpeech
    /\ last.pre.file_path # NoPath
    /\ last.pre.text_input # <<>>
    /\ last.pre.caption_output # <<>>
    /\ file_path = NoPath /\ text_input = <<>> /\ caption_output = <<>>

====
